---- MODULE Spec2Model ----
(***************************************************************************)
(* Model of the request-instrumentation pipeline of otel-fiber-demo:       *)
(* the Redis-backed rate limiter (database/redis.go, CheckRateLimit) and   *)
(* the fiber middleware stack of cmd/server (RequestTracing,               *)
(* RequestMetrics, RequestLogging, RateLimit, recover, ErrorHandler).      *)
(*                                                                         *)
(* Time is counted in ticks of half a window.  The Redis store keeps, per  *)
(* key, the counter and the remaining time to live; a caller's record      *)
(* keeps the age of its INCR, so that all times are relative to the        *)
(* present and the state space stays finite.                               *)
(***************************************************************************)
EXTENDS Integers, Sequences, FiniteSets, TLC

\* ---------------------------------------------------------------- bounds
NumCallers == 4     \* concurrent callers of CheckRateLimit (SpecRL)
NumSteady == 2      \* recycling callers of the steady stream (SpecSteady)
NumReq == 2         \* requests in the middleware pipeline (Spec)
MaxLimit == 3       \* cfg.RequestsPerMinute ranges over 1..MaxLimit
TraceIdLen == 2     \* hex digits of a trace identifier (32 in the library)
SpanIdLen == 1      \* hex digits of a span identifier (16 in the library)
NumMsgs == 2        \* messages written to the topic (SpecKafka)

\* ------------------------------------------------------------- constants
Window == 2         \* time.Minute, in ticks
NoTTL == -1         \* a key without expiry (TTL -1 in Redis)
NoCall == -1        \* no call has arrived on the key yet
StatusOK == 200
StatusTooManyRequests == 429
StatusInternalServerError == 500
StatusPartialContent == 206

Keys == {"1.2.3.4", "5.6.7.8"}

\* Ages of INCRs are exact below MaxAge: up to one window back.
MaxAge == Window + 1

\* The scaled top of the int64 range of a counter: a counter passes every
\* limit before it overflows.
CounterMax == MaxLimit + 3

\* The key of the callers of SpecRL and SpecSteady.
ClientKey == "1.2.3.4"

\* The limits a caller of CheckRateLimit may pass.
Limits == 1..MaxLimit

VARIABLES
    store,      \* Redis: key -> [count, ttl, creator]; count = 0: absent
    cfg,        \* cfg.RateLimit.RequestsPerMinute
    pc,         \* caller/request -> position
    call,       \* caller/request -> state of its CheckRateLimit call
    req,        \* request -> state of the middleware pipeline around it
    sinceCall,  \* key -> ticks since the last INCR arrived (NoCall: none yet)
    crashed     \* the server process has died of an unrecovered panic

VARIABLES
    carrier,    \* a headerCarrier under Set, Inject and Extract
    kafka,      \* the topic, the spans of publishers and consumer, the reader
    obs,        \* the span of a context, the logger's last record, the last
                \* call of an external client
    svc,        \* the tracer provider and its exporter, the stores' liveness,
                \* the server's last response
    ops,        \* caller -> its operation and the spans started for it
    loop        \* a StartConsuming loop and a simulated call under one context

\* The state outside the rate limiter and the middleware pipeline.
aux == <<carrier, kafka, obs, svc, ops, loop>>

\* The state of the rate limiter and the middleware pipeline.
limiter == <<store, cfg, pc, call, req, sinceCall, crashed>>

vars == <<store, cfg, pc, call, req, sinceCall, crashed, aux>>

Procs == DOMAIN pc

Min(a, b) == IF a < b THEN a ELSE b

\* ------------------------------------------------- trace context, carrier
\* Strings that are encoded and parsed are sequences of characters.
HexDigits ==
    <<"0", "1", "2", "3", "4", "5", "6", "7",
      "8", "9", "a", "b", "c", "d", "e", "f">>

UpperHexDigits ==
    <<"0", "1", "2", "3", "4", "5", "6", "7",
      "8", "9", "A", "B", "C", "D", "E", "F">>

\* The hex digits identifiers are made of here.
IdNibbles == {0, 10}

\* trace.TraceID and trace.SpanID, as sequences of half-bytes; all zero is
\* the invalid identifier.
TraceIDs == [1..TraceIdLen -> IdNibbles]
SpanIDs == [1..SpanIdLen -> IdNibbles]
ZeroTraceID == [i \in 1..TraceIdLen |-> 0]
ZeroSpanID == [i \in 1..SpanIdLen |-> 0]

\* trace.FlagsSampled
FlagsSampled == 1

\* trace.TraceFlags values: none, sampled, sampled and a further bit.
TraceFlagsValues == {0, 1, 3}

\* TraceFlags.IsSampled
IsSampled(flags) == flags % 2 = FlagsSampled

\* A tracestate and a baggage, each empty or with one member.
TraceStates == {<<>>, <<"v", "=", "1">>}
Baggages == {<<>>, <<"k", "=", "2">>}

\* trace.SpanContext{}
EmptySpanContext ==
    [trace |-> ZeroTraceID, span |-> ZeroSpanID, flags |-> 0,
     state |-> <<>>, remote |-> FALSE]

\* SpanContext.IsValid
IsValid(sc) == sc.trace # ZeroTraceID /\ sc.span # ZeroSpanID

\* What a propagator reads from and writes to a context: the span context
\* of its span and its baggage.
EmptyContext == [sc |-> EmptySpanContext, bag |-> <<>>]

LocalSpanContexts ==
    [trace : TraceIDs, span : SpanIDs, flags : TraceFlagsValues,
     state : TraceStates, remote : {FALSE}]

Contexts == [sc : LocalSpanContexts, bag : Baggages]

\* The header keys of propagation.TraceContext and propagation.Baggage.
TraceparentHeader == "traceparent"
TracestateHeader == "tracestate"
BaggageHeader == "baggage"
TraceKeys == {TraceparentHeader, TracestateHeader, BaggageHeader}

\* The keys and values of the Set calls on a carrier.
CarrierKeys == TraceKeys
CarrierValues == {<<"a">>, <<"b">>}

Header(k, v) == [key |-> k, value |-> v]

\* headerCarrier.Get
Get(headers, key) ==
    IF \E i \in 1..Len(headers) : headers[i].key = key
    THEN headers[CHOOSE i \in 1..Len(headers) :
                     /\ headers[i].key = key
                     /\ \A j \in 1..(i - 1) : headers[j].key # key].value
    ELSE <<>>

SetAppend(headers, key, value) == Append(headers, Header(key, value))

\* headerCarrier.Set
Set(headers, key, value) ==
    IF \E i \in 1..Len(headers) : headers[i].key = key
    THEN [headers EXCEPT ![CHOOSE i \in 1..Len(headers) :
                               /\ headers[i].key = key
                               /\ \A j \in 1..(i - 1) : headers[j].key # key]
                           = Header(key, value)]
    ELSE Append(headers, Header(key, value))

\* headerCarrier.Keys
CarrierKeysOf(headers) == [i \in 1..Len(headers) |-> headers[i].key]

HexUpper(n) == UpperHexDigits[n + 1]

\* One hex digit of hex.EncodeToString.
Hex(n) == HexDigits[n + 1]

\* hex.EncodeToString, on half-bytes.
EncodeHex(b) == [i \in 1..Len(b) |-> Hex(b[i])]

\* The lower-case hex check and hex.Decode of the extraction.
IsLowerHex(part) ==
    \A i \in 1..Len(part) : \E d \in 1..16 : HexDigits[d] = part[i]

DecodeHex(part) ==
    [i \in 1..Len(part) |-> (CHOOSE d \in 1..16 : HexDigits[d] = part[i]) - 1]

\* The two half-bytes of a byte.
ByteNibbles(b) == <<b \div 16, b % 16>>

\* The traceparent value of TraceContext.Inject: version 00, trace
\* identifier, span identifier, flags & FlagsSampled.
Traceparent(sc) ==
    <<"0", "0", "-">> \o EncodeHex(sc.trace) \o <<"-">> \o EncodeHex(sc.span)
        \o <<"-">> \o EncodeHex(ByteNibbles(sc.flags % 2))

\* strings.Split(h, "-")
RECURSIVE Split(_)
Split(h) ==
    IF \E i \in 1..Len(h) : h[i] = "-"
    THEN LET i == CHOOSE i \in 1..Len(h) :
                      h[i] = "-" /\ \A j \in 1..(i - 1) : h[j] # "-"
         IN <<SubSeq(h, 1, i - 1)>> \o Split(SubSeq(h, i + 1, Len(h)))
    ELSE <<h>>

\* trace.ParseTraceState and baggage.Parse accept the empty string and lists
\* of members.
ValidMembers(v) == v = <<>> \/ \E i \in 1..Len(v) : v[i] = "="

\* TraceContext.extract: the span context of the traceparent and tracestate
\* headers, SpanContext{} when traceparent is absent or malformed; a
\* tracestate that does not parse is dropped.
TraceContextExtract(headers) ==
    LET parts == Split(Get(headers, TraceparentHeader))
        ts == Get(headers, TracestateHeader)
    IN IF /\ Len(parts) = 4
          /\ parts[1] = <<"0", "0">>
          /\ Len(parts[2]) = TraceIdLen /\ IsLowerHex(parts[2])
          /\ Len(parts[3]) = SpanIdLen /\ IsLowerHex(parts[3])
          /\ Len(parts[4]) = 2 /\ IsLowerHex(parts[4])
       THEN LET sc == [trace |-> DecodeHex(parts[2]),
                       span |-> DecodeHex(parts[3]),
                       flags |-> (16 * DecodeHex(parts[4])[1]
                                     + DecodeHex(parts[4])[2]) % 2,
                       state |-> IF ValidMembers(ts) THEN ts ELSE <<>>,
                       remote |-> TRUE]
            IN IF IsValid(sc) THEN sc ELSE EmptySpanContext
       ELSE EmptySpanContext

\* The Set calls of otel.GetTextMapPropagator().Inject: TraceContext sets
\* tracestate, if any, and traceparent for a valid span context; Baggage
\* sets baggage when there is any.
InjectCalls(ctx) ==
    (IF IsValid(ctx.sc)
     THEN (IF ctx.sc.state # <<>>
           THEN <<Header(TracestateHeader, ctx.sc.state)>> ELSE <<>>)
          \o <<Header(TraceparentHeader, Traceparent(ctx.sc))>>
     ELSE <<>>)
    \o (IF ctx.bag # <<>> THEN <<Header(BaggageHeader, ctx.bag)>> ELSE <<>>)

RECURSIVE SetAll(_, _)
SetAll(headers, calls) ==
    IF calls = <<>> THEN headers
    ELSE SetAll(Set(headers, Head(calls).key, Head(calls).value), Tail(calls))

\* otel.GetTextMapPropagator().Inject(ctx, carrier)
Inject(headers, ctx) == SetAll(headers, InjectCalls(ctx))

\* otel.GetTextMapPropagator().Extract(ctx, carrier): the context is kept
\* where the headers give nothing valid.
Extract(headers, ctx) ==
    [sc |-> IF IsValid(TraceContextExtract(headers))
            THEN TraceContextExtract(headers) ELSE ctx.sc,
     bag |-> IF Get(headers, BaggageHeader) # <<>>
                /\ ValidMembers(Get(headers, BaggageHeader))
             THEN Get(headers, BaggageHeader) ELSE ctx.bag]

\* The carrier at rest: no header, no Set yet, nothing injected or
\* extracted.
NotSet == [set |-> FALSE, value |-> <<>>, n |-> 0]
NoneYet == [done |-> FALSE, ctx |-> EmptyContext]

CarrierIdle ==
    [headers |-> <<>>, lastSet |-> [k \in CarrierKeys |-> NotSet],
     injected |-> NoneYet, extracted |-> NoneYet]

\* No span: the zero value of the span records.
NoSpan ==
    [name |-> "none", trace |-> ZeroTraceID, span |-> ZeroSpanID,
     parent |-> ZeroSpanID, remoteParent |-> FALSE, flags |-> 0,
     state |-> <<>>, errs |-> 0, ended |-> FALSE]

\* No message, a consumer that has read nothing, no failed publish.
KafkaIdle ==
    [topic |-> <<>>, offset |-> 0, stopped |-> FALSE,
     consumerCtx |-> EmptyContext, failed |-> NoSpan]

\* No log record yet; no call of an external client yet.
NoRecord ==
    [level |-> "none", given |-> {}, fields |-> {}, span |-> NoSpan]

NoOutboundCall ==
    [client |-> "none", deadline |-> 0, duration |-> 0, cause |-> "none",
     err |-> FALSE, span |-> NoSpan]

ObsIdle == [span |-> NoSpan, log |-> NoRecord, out |-> NoOutboundCall]

\* No response yet.
NoResponse ==
    [path |-> "none", outcome |-> "none", status |-> 0, body |-> "none",
     spans |-> 0, exportFailed |-> FALSE, redisUp |-> TRUE, mongoUp |-> TRUE]

\* The process before NewTelemetryManager: no tracer provider, no exporter,
\* the server not listening, both stores reachable.
SvcIdle ==
    [endpoint |-> "", setup |-> "none", exporters |-> <<>>, up |-> FALSE,
     queue |-> 0, exportFailed |-> FALSE, redisUp |-> TRUE, mongoUp |-> TRUE,
     last |-> NoResponse]

AuxIdle ==
    /\ carrier = CarrierIdle
    /\ kafka = KafkaIdle
    /\ obs = ObsIdle
    /\ svc = SvcIdle
    /\ ops = <<>>
    /\ loop = <<>>

\* ------------------------------------------------------------ Redis store
\* creator names the call whose INCR created the counter: it tells the lives
\* of a counter apart.
EmptyKey == [count |-> 0, ttl |-> NoTTL, creator |-> 0]

\* A key exists while it holds a counter; Tick removes it when its time to
\* live has run out.
Exists(s, k) == s[k].count > 0

\* INCR: atomically adds one to the counter of k, creating it (without
\* expiry) at 1 when absent.  At the top of the integer range INCR fails
\* and leaves the value alone.
IncrOverflows(s, k) == s[k].count >= CounterMax

RedisIncrLost(s, k, p) ==
    IF Exists(s, k) THEN s
    ELSE [s EXCEPT ![k] = [count |-> 1, ttl |-> NoTTL, creator |-> p]]

RedisIncr(s, k, p) ==
    IF Exists(s, k)
    THEN [s EXCEPT ![k].count = @ + 1]
    ELSE [s EXCEPT ![k] = [count |-> 1, ttl |-> NoTTL, creator |-> p]]

\* The value INCR replies with: the counter after the increment.
IncrVal(s, k) == IF Exists(s, k) THEN s[k].count + 1 ELSE 1

RedisExpireAll(s, k, w) ==
    [j \in Keys |-> IF Exists(s, j) THEN [s[j] EXCEPT !.ttl = w] ELSE s[j]]

\* EXPIRE: sets the time to live of an existing key to w, whatever it was;
\* a no-op on a missing key.
RedisExpire(s, k, w) ==
    IF Exists(s, k) THEN [s EXCEPT ![k].ttl = w] ELSE s

\* One tick of the server clock: times to live run down, and a key whose
\* time to live has run out is deleted.
RedisTick(s) ==
    [k \in Keys |->
        IF ~Exists(s, k) \/ s[k].ttl = NoTTL THEN s[k]
        ELSE IF s[k].ttl = 0 THEN EmptyKey
        ELSE [s[k] EXCEPT !.ttl = @ - 1]]

\* --------------------------------------------------------- CheckRateLimit
NoKey == "none"

\* key: the key of the call; val: incr.Val(), the reply of INCR (0: none);
\* life: the creator of the counter INCR incremented; age: ticks since INCR
\* was executed (exact below MaxAge); err: pipe.Exec returned an error; ret:
\* the call has returned.
IdleCall == [key |-> NoKey, val |-> 0, life |-> 0, age |-> 0,
             err |-> FALSE, ret |-> FALSE]

AllowedLax(count, limit) == count <= limit + 1

\* allowed := count <= int64(limit)
Allowed(count, limit) == count <= limit

\* The boolean CheckRateLimit returns when called with this limit, as a
\* function of what its pipeline did: (false, err) when pipe.Exec failed,
\* (count <= limit, nil) otherwise.
CheckRateLimitResult(c, limit) ==
    IF c.err THEN FALSE ELSE Allowed(c.val, limit)

\* pipe.Incr(ctx, key) as executed by the server.
PipeIncr(p) ==
    /\ pc[p] = "incr"
    /\ ~crashed
    /\ LET k == call[p].key IN
        IF IncrOverflows(store, k)
        THEN /\ call' = [call EXCEPT ![p].err = TRUE]
             /\ store' = store
        ELSE /\ store' = RedisIncr(store, k, p)
             /\ call' = [call EXCEPT ![p].val = IncrVal(store, k),
                                     ![p].life = store'[k].creator,
                                     ![p].age = 0]
    /\ sinceCall' = [sinceCall EXCEPT ![call[p].key] = 0]
    /\ pc' = [pc EXCEPT ![p] = "expire"]
    /\ UNCHANGED <<aux, cfg, req, crashed>>

\* pipe.Expire(ctx, key, window) as executed by the server.
PipeExpire(p) ==
    /\ pc[p] = "expire"
    /\ ~crashed
    /\ store' = RedisExpire(store, call[p].key, Window)
    /\ pc' = [pc EXCEPT ![p] = "exec"]
    /\ UNCHANGED <<aux, cfg, call, req, sinceCall, crashed>>

\* pipe.Exec fails: the connection is lost before INCR was executed, between
\* INCR and EXPIRE, or before the replies were read.
PipeFail(p) ==
    /\ pc[p] \in {"incr", "expire", "exec"}
    /\ ~crashed
    /\ ~call[p].err
    /\ call' = [call EXCEPT ![p].err = TRUE, ![p].age = 0]
    /\ pc' = [pc EXCEPT ![p] = "exec"]
    /\ UNCHANGED <<aux, store, cfg, req, sinceCall, crashed>>

\* The server clock advances by one tick.  The ages of the INCRs and the
\* time since the last call are observations that only the limiter's own
\* specifications keep (observed = TRUE); a call that pipe.Exec failed
\* admits nothing and its age is not kept.
ClockTick(observed) ==
    /\ ~crashed
    /\ store' = RedisTick(store)
    /\ call' = [p \in Procs |->
                   IF observed /\ call[p].val > 0 /\ ~call[p].err
                   THEN [call[p] EXCEPT !.age = Min(@ + 1, MaxAge)]
                   ELSE call[p]]
    /\ sinceCall' = [k \in Keys |->
                        IF ~observed \/ sinceCall[k] = NoCall THEN sinceCall[k]
                        ELSE Min(sinceCall[k] + 1, Window)]
    /\ UNCHANGED <<aux, cfg, pc, req, crashed>>

Tick == ClockTick(TRUE)

TickServer == ClockTick(FALSE)

\* ------------------------------------------------ the request pipeline
\* The state of one request in the middleware stack of main:
\* recover, cors, RequestTracing, RequestMetrics, RequestLogging, RateLimit,
\* then the route's handler.
\*   spanStarts, spanEnds, spanErrs: Start, End, RecordError on the request span
\*   spanStatus: the http.status_code attribute of the span (0: not set)
\*   logs: the lines RequestLogging emitted
\*   counted, durations: RequestCounter.Add and RequestDuration.Record calls
\*   status, body: the response
\*   checked, allowed, rlErr: CheckRateLimit has returned (allowed, rlErr)
\*   decision: what RateLimit did ("next": c.Next(), "reject": the 429)
\*   handlerRuns: invocations of the route's handler; outcome: how it ended
\*   result: what c.Next() yields to the middleware above ("nil", "err",
\*           "panic")
\*   afterPanic: some earlier request had panicked when this one arrived
\*   trace: the steps of the pipeline, in order
IdleReq == [spanStarts |-> 0, spanEnds |-> 0, spanErrs |-> 0, spanStatus |-> 0,
            logs |-> <<>>, counted |-> 0, durations |-> 0,
            status |-> StatusOK, body |-> "none",
            checked |-> FALSE, allowed |-> FALSE, rlErr |-> FALSE,
            decision |-> "none",
            handlerRuns |-> 0, outcome |-> "none", result |-> "none",
            afterPanic |-> FALSE, trace |-> <<>>]

Outcomes == {"ok", "error", "panic"}

\* RequestTracing, up to c.Next(): tracer.Start and c.SetUserContext(ctx).
RequestTracingBefore(q) ==
    [q EXCEPT !.spanStarts = @ + 1, !.trace = Append(@, "span_start")]

\* trace.SpanFromContext(ctx).IsRecording(): the request span is open.
IsRecording(q) == q.spanStarts > q.spanEnds

\* WithTraceFields(ctx): trace_id and span_id while the span is recording.
WithTraceFields(q) == IF IsRecording(q) THEN {"trace_id", "span_id"} ELSE {}

\* The line RequestLogging writes for a request whose c.Next() returned.
LogLine(q) ==
    [level |-> IF q.result = "err" THEN "error" ELSE "info",
     msg |-> IF q.result = "err" THEN "HTTP request failed"
             ELSE "HTTP request completed",
     fields |-> {"method", "path", "status", "duration_ms", "ip", "user_agent"}
                \cup WithTraceFields(q)
                \cup (IF q.result = "err" THEN {"error"} ELSE {}),
     status |-> q.status]

RequestLoggingAfterOnSuccess(q) ==
    IF q.result # "nil" THEN q
    ELSE [q EXCEPT !.logs = Append(@, LogLine(q)), !.trace = Append(@, "log")]

\* RequestLogging, after c.Next(): skipped when c.Next() panicked, since the
\* middleware defers nothing.
RequestLoggingAfter(q) ==
    IF q.result = "panic" THEN q
    ELSE [q EXCEPT !.logs = Append(@, LogLine(q)), !.trace = Append(@, "log")]

RequestMetricsAfterOnSuccess(q) ==
    IF q.result # "nil" THEN q
    ELSE [q EXCEPT !.counted = @ + 1, !.durations = @ + 1,
                   !.trace = Append(@, "metrics")]

\* RequestMetrics, after c.Next(): skipped when c.Next() panicked.
RequestMetricsAfter(q) ==
    IF q.result = "panic" THEN q
    ELSE [q EXCEPT !.counted = @ + 1, !.durations = @ + 1,
                   !.trace = Append(@, "metrics")]

\* RequestTracing, after c.Next(): SetAttributes and RecordError are skipped
\* when c.Next() panicked; the deferred span.End() runs on every path.
RequestTracingAfter(q) ==
    LET a == IF q.result = "panic" THEN q
             ELSE [q EXCEPT !.spanStatus = q.status,
                            !.spanErrs = IF q.result = "err" THEN @ + 1 ELSE @]
    IN [a EXCEPT !.spanEnds = @ + 1, !.trace = Append(@, "span_end")]

RecoverMissing(q) == q

\* recover.New(): a panic of the handlers below becomes the error returned.
Recover(q) ==
    IF q.result = "panic" THEN [q EXCEPT !.result = "err"] ELSE q

\* The app's ErrorHandler: any error is answered 500 with its message.
ErrorHandler(q) ==
    IF q.result = "err"
    THEN [q EXCEPT !.status = StatusInternalServerError, !.body = "error"]
    ELSE q

RateLimitDecisionFailClosed(c, limit) ==
    IF c.err \/ ~CheckRateLimitResult(c, limit) THEN "reject" ELSE "next"

RateLimitDecisionNeverReject(c, limit) == "next"

\* RateLimit, after CheckRateLimit returned (allowed, err): c.Next() when
\* err # nil, the 429 when !allowed, c.Next() otherwise.
RateLimitDecision(c, limit) ==
    IF c.err THEN "next"
    ELSE IF ~CheckRateLimitResult(c, limit) THEN "reject"
    ELSE "next"

\* Some request has run into a panic of its handler and has been answered.
SomePanicked == \E q \in Procs : pc[q] = "done" /\ req[q].outcome = "panic"

UnwindSpanFirst(q) ==
    Recover(RequestMetricsAfter(RequestLoggingAfter(RequestTracingAfter(q))))

\* The stack returns: RequestLogging, RequestMetrics, RequestTracing, then
\* recover.
Unwind(q) ==
    Recover(RequestTracingAfter(RequestMetricsAfter(RequestLoggingAfter(q))))

\* The response: for an error that reaches the app, its ErrorHandler's.
Respond(q) == ErrorHandler(Unwind(q))

\* A request arrives from a client address and runs down the stack to
\* CheckRateLimit(ctx, "rate_limit:" + c.IP(), cfg.RequestsPerMinute,
\* time.Minute), whose pipeline is sent to the server.  The addresses are
\* interchangeable: the first request is taken to come from ClientKey.
Receive(r) ==
    /\ pc[r] = "new"
    /\ ~crashed
    /\ \E ip \in IF r = 1 THEN {ClientKey} ELSE Keys :
        call' = [call EXCEPT ![r] = [IdleCall EXCEPT !.key = ip]]
    /\ req' = [req EXCEPT ![r] =
                  RequestTracingBefore([req[r] EXCEPT !.afterPanic = SomePanicked])]
    /\ pc' = [pc EXCEPT ![r] = "incr"]
    /\ UNCHANGED <<aux, store, cfg, sinceCall, crashed>>

\* CheckRateLimit returns (allowed, err), its frame is gone, and RateLimit
\* decides: it answers 429, and the stack returns, or it calls c.Next().
RateLimit(r) ==
    /\ pc[r] = "exec"
    /\ ~crashed
    /\ call' = [call EXCEPT ![r] = IdleCall]
    /\ LET d == RateLimitDecision(call[r], cfg)
           q == [req[r] EXCEPT !.checked = TRUE,
                               !.allowed = CheckRateLimitResult(call[r], cfg),
                               !.rlErr = call[r].err,
                               !.decision = d,
                               !.trace = Append(@, "rate_limit")]
           a == [q EXCEPT !.status = StatusTooManyRequests,
                          !.body = "Rate limit exceeded",
                          !.result = "nil"]
       IN IF d = "reject"
          THEN /\ req' = [req EXCEPT ![r] = Respond(a)]
               /\ crashed' = (Unwind(a).result = "panic")
               /\ pc' = [pc EXCEPT ![r] = "done"]
          ELSE /\ req' = [req EXCEPT ![r] = q]
               /\ crashed' = crashed
               /\ pc' = [pc EXCEPT ![r] = "handler"]
    /\ UNCHANGED <<aux, store, cfg, sinceCall>>

\* The route's handler runs: it answers, returns an error or panics; then
\* the stack returns.  A panic that nothing recovers ends the process.
Handler(r) ==
    /\ pc[r] = "handler"
    /\ ~crashed
    /\ \E o \in Outcomes :
        LET q == [req[r] EXCEPT !.handlerRuns = @ + 1,
                                !.outcome = o,
                                !.result = CASE o = "ok" -> "nil"
                                             [] o = "error" -> "err"
                                             [] o = "panic" -> "panic",
                                !.body = IF o = "ok" THEN "handler" ELSE @,
                                !.trace = Append(@, "handler")]
        IN /\ req' = [req EXCEPT ![r] = Respond(q)]
           /\ crashed' = (Unwind(q).result = "panic")
    /\ pc' = [pc EXCEPT ![r] = "done"]
    /\ UNCHANGED <<aux, store, cfg, call, sinceCall>>

\* The requests are numbered in the order in which they arrive.
InOrderNew(r) == \A q \in Procs : q < r => pc[q] # "new"

Init ==
    /\ store = [k \in Keys |-> EmptyKey]
    /\ cfg \in Limits
    /\ pc = [r \in 1..NumReq |-> "new"]
    /\ call = [r \in 1..NumReq |-> IdleCall]
    /\ req = [r \in 1..NumReq |-> IdleReq]
    /\ sinceCall = [k \in Keys |-> NoCall]
    /\ crashed = FALSE
    /\ AuxIdle

Next ==
    \/ \E r \in Procs : InOrderNew(r) /\ Receive(r)
    \/ \E r \in Procs : PipeIncr(r)
    \/ \E r \in Procs : PipeExpire(r)
    \/ \E r \in Procs : PipeFail(r)
    \/ \E r \in Procs : RateLimit(r)
    \/ \E r \in Procs : Handler(r)
    \/ TickServer

Spec == Init /\ [][Next]_vars

\* ------------------------------------------------- callers of the limiter
\* CheckRateLimit returns (CheckRateLimitResult(call[p], limit), call[p].err)
\* to its caller.  Nothing in the limiter reads the boolean back, so the
\* call's record is kept and the boolean is computed from it, for the limit
\* the callers passed.
ReturnCheckRateLimit(p) ==
    /\ pc[p] = "exec"
    /\ call' = [call EXCEPT ![p].ret = TRUE]
    /\ pc' = [pc EXCEPT ![p] = "returned"]
    /\ UNCHANGED <<aux, store, cfg, req, sinceCall, crashed>>


\* The callers are numbered in the order in which their pipelines reach the
\* server or fail before reaching it.
InOrder(p) == \A q \in Procs : q < p => pc[q] # "incr"

\* NumCallers callers have invoked CheckRateLimit(ctx, ClientKey, limit,
\* Window) with the same limit, and their pipelines are in flight.  They
\* call it directly: there is no request around the calls.
InitRL ==
    /\ store = [k \in Keys |-> EmptyKey]
    /\ cfg = MaxLimit
    /\ pc = [p \in 1..NumCallers |-> "incr"]
    /\ call = [p \in 1..NumCallers |-> [IdleCall EXCEPT !.key = ClientKey]]
    /\ req = <<>>
    /\ sinceCall = [k \in Keys |-> NoCall]
    /\ crashed = FALSE
    /\ AuxIdle

NextRL ==
    \/ \E p \in Procs : InOrder(p) /\ PipeIncr(p)
    \/ \E p \in Procs : PipeExpire(p)
    \/ \E p \in Procs : InOrder(p) /\ PipeFail(p)
    \/ \E p \in Procs : ReturnCheckRateLimit(p)
    \/ Tick

SpecRL == InitRL /\ [][NextRL]_vars

\* ------------------------------------------------------- a steady stream
\* The client sends its next call.
Recycle(p) ==
    /\ pc[p] = "returned"
    /\ call' = [call EXCEPT ![p] = [IdleCall EXCEPT !.key = call[p].key]]
    /\ pc' = [pc EXCEPT ![p] = "incr"]
    /\ UNCHANGED <<aux, store, cfg, req, sinceCall, crashed>>

\* The stream is steady: every call reaches the server less than a window
\* after the call before it.
TickSteady ==
    /\ \A k \in Keys : sinceCall[k] + 1 < Window
    /\ Tick

InitSteady ==
    /\ store = [k \in Keys |-> EmptyKey]
    /\ cfg = MaxLimit
    /\ pc = [p \in 1..NumSteady |-> "incr"]
    /\ call = [p \in 1..NumSteady |-> [IdleCall EXCEPT !.key = ClientKey]]
    /\ req = <<>>
    /\ sinceCall = [k \in Keys |-> NoCall]
    /\ crashed = FALSE
    /\ AuxIdle

NextSteady ==
    \/ \E p \in Procs : PipeIncr(p)
    \/ \E p \in Procs : PipeExpire(p)
    \/ \E p \in Procs : ReturnCheckRateLimit(p)
    \/ \E p \in Procs : Recycle(p)
    \/ TickSteady

\* The server executes the commands it has received, calls return, the
\* client keeps sending and the clock keeps running.
SteadyFair ==
    /\ \A p \in 1..NumSteady :
        /\ WF_vars(PipeIncr(p))
        /\ WF_vars(PipeExpire(p))
        /\ WF_vars(ReturnCheckRateLimit(p))
        /\ WF_vars(Recycle(p))
    /\ WF_vars(TickSteady)

SpecSteady == InitSteady /\ [][NextSteady]_vars /\ SteadyFair

\* ================================================= properties C1 .. C5
\* The call of p has returned true, for limit L.
Admitted(p, L) == call[p].ret /\ CheckRateLimitResult(call[p], L)

\* The call of p has returned (false, nil), for limit L.
Rejected(p, L) ==
    call[p].ret /\ ~call[p].err /\ ~CheckRateLimitResult(call[p], L)

\* The callers admitted on k whose INCR lies in the interval of length Window
\* that begins a + Window - 1 ticks ago and ends a ticks ago.
AdmittedIn(k, L, a) ==
    {p \in Procs : /\ Admitted(p, L)
                   /\ call[p].key = k
                   /\ call[p].age \in a..(a + Window - 1)}

\* C1: for N concurrent calls of CheckRateLimit with the same key, limit L
\* and window W, at most L calls return true within any interval of length
\* W.  A call is placed in time by its INCR, the moment it is counted.
C1_AtMostLimitPerWindow ==
    \A L \in Limits : \A k \in Keys : \A a \in 0..(MaxAge - Window) :
        Cardinality(AdmittedIn(k, L, a)) <= L

\* C2, as stated: a call whose INCR was executed returns true exactly when
\* the counter after its increment is at most limit.
C2_TrueIffCountAtMostLimit ==
    \A L \in Limits : \A p \in Procs :
        (call[p].ret /\ call[p].val > 0)
            => (CheckRateLimitResult(call[p], L) <=> call[p].val <= L)

\* The callers whose INCR incremented the counter of k in its life e.
InLife(k, e) ==
    {p \in Procs : call[p].val > 0 /\ call[p].key = k /\ call[p].life = e}

\* The i-th caller of S, in the order of the INCRs (the callers of SpecRL
\* are numbered in that order).
Nth(S, i) == CHOOSE p \in S : Cardinality({q \in S : q < p}) = i - 1

\* Four or more calls have incremented the counter of k in its life e, and
\* the first four have returned without error.
FirstFourReturned(k, e) ==
    /\ Cardinality(InLife(k, e)) >= 4
    /\ \A i \in 1..4 :
        call[Nth(InLife(k, e), i)].ret /\ ~call[Nth(InLife(k, e), i)].err

\* What the first four callers of the life e of k returned, in order.
FirstFourResults(k, e, L) ==
    [i \in 1..4 |-> CheckRateLimitResult(call[Nth(InLife(k, e), i)], L)]

\* C2, amended: CheckRateLimit returns true exactly when pipe.Exec reported
\* no error and the counter after the call's increment is at most limit; in
\* particular, with limit 3 and a fresh key, four calls inside one life of
\* the counter that meet no error return true, true, true, false.
C2_TrueIffNoErrorAndCountAtMostLimit ==
    /\ \A L \in Limits : \A p \in Procs :
        call[p].ret =>
            (CheckRateLimitResult(call[p], L)
                <=> (~call[p].err /\ call[p].val >= 1 /\ call[p].val <= L))
    /\ \A k \in Keys : \A e \in Procs :
        (3 \in Limits /\ FirstFourReturned(k, e))
            => FirstFourResults(k, e, 3) = <<TRUE, TRUE, TRUE, FALSE>>

\* Four calls on a fresh key, all within one tick, have returned true, true,
\* true, false for limit 3.
C2_Witness ==
    /\ 3 \in Limits
    /\ FirstFourReturned(ClientKey, 1)
    /\ \A i \in 1..4 : call[Nth(InLife(ClientKey, 1), i)].age = 0
    /\ FirstFourResults(ClientKey, 1, 3) = <<TRUE, TRUE, TRUE, FALSE>>

\* C3: the expiry of a counter is armed only by the call that creates it: a
\* step of a call on a key whose counter existed before the call leaves the
\* time to live of the key as it was.
C3_ExpiryArmedOnlyOnCreation ==
    [][\A p \in Procs :
        LET k == call[p].key IN
        /\ (pc[p] = "incr" /\ pc'[p] = "expire" /\ Exists(store, k))
            => store'[k].ttl = store[k].ttl
        /\ (pc[p] = "expire" /\ pc'[p] = "exec" /\ call[p].val > 1)
            => store'[k].ttl = store[k].ttl]_vars

\* C4: under a steady stream of calls on one key, a caller that has been
\* rejected is eventually admitted again.
C4_RejectedEventuallyAdmitted ==
    \A L \in Limits :
        (\E p \in 1..NumSteady : Rejected(p, L))
            ~> (\E p \in 1..NumSteady : Admitted(p, L))

\* C5: no update is lost: when N callers have incremented the counter of k
\* in its present life, the replies of INCR they hold are the N distinct
\* values 1, 2, .., N, and the stored counter is N.
C5_NoLostUpdate ==
    \A k \in Keys :
        Exists(store, k) =>
            LET S == InLife(k, store[k].creator) IN
            /\ Cardinality(S) = store[k].count
            /\ {call[p].val : p \in S} = 1..store[k].count

\* Three callers are past INCR and not yet past EXPIRE at once, on a counter
\* that three or more calls have incremented.
C5_Witness ==
    /\ store[ClientKey].count >= 3
    /\ Cardinality({p \in InLife(ClientKey, store[ClientKey].creator) :
                       pc[p] = "expire"}) >= 3

\* ---------------------------------------------------------------------
\* The middleware pipeline (Spec)
\* ---------------------------------------------------------------------

\* The request has been answered.
Done(r) == pc[r] = "done"

\* The terminal states of a request.
Succeeded(r) == Done(r) /\ req[r].outcome = "ok"
Failed(r) == Done(r) /\ req[r].outcome = "error"
Panicked(r) == Done(r) /\ req[r].outcome = "panic"
RejectedByLimiter(r) == Done(r) /\ req[r].decision = "reject"

\* The fields the request log line has to carry.
RequestLogFields == {"method", "path", "status", "duration_ms", "ip"}

\* C6: a request whose handler panicked has exactly one request span, which
\* is ended and has an error recorded on it, and exactly one request log
\* line, correlated with the span.
C6_PanicStillOneFailedSpanAndOneLog ==
    \A r \in Procs :
        Panicked(r) =>
            /\ req[r].spanStarts = 1
            /\ req[r].spanEnds = 1
            /\ req[r].spanErrs >= 1
            /\ Len(req[r].logs) = 1
            /\ {"trace_id", "span_id"} \subseteq req[r].logs[1].fields

\* C7: a request that Succeeded, Failed by a handler error or was Rejected
\* by the rate limiter has exactly one request span, which is ended, and
\* exactly one request log line, which carries method, path, status,
\* duration and caller address.
C7_TerminalHasOneSpanAndOneLog ==
    \A r \in Procs :
        (Succeeded(r) \/ Failed(r) \/ RejectedByLimiter(r)) =>
            /\ req[r].spanStarts = 1
            /\ req[r].spanEnds = 1
            /\ Len(req[r].logs) = 1
            /\ RequestLogFields \subseteq req[r].logs[1].fields

\* One request has Failed by a handler error and another has been Rejected.
C7_Witness ==
    \E r1, r2 \in Procs :
        /\ Failed(r1) /\ Len(req[r1].logs) = 1
        /\ RejectedByLimiter(r2) /\ Len(req[r2].logs) = 1

\* C8: when CheckRateLimit returned false without error, RateLimit answers
\* 429 "Rate limit exceeded" and the handler below is never invoked for the
\* request.
C8_RejectedGets429AndNoHandler ==
    \A r \in Procs :
        (req[r].checked /\ ~req[r].rlErr /\ ~req[r].allowed) =>
            /\ req[r].decision = "reject"
            /\ req[r].status = StatusTooManyRequests
            /\ req[r].body = "Rate limit exceeded"
            /\ req[r].handlerRuns = 0

\* A request CheckRateLimit refused without error has been answered.
C8_Witness ==
    \E r \in Procs :
        /\ Done(r)
        /\ req[r].checked /\ ~req[r].rlErr /\ ~req[r].allowed
        /\ req[r].status = StatusTooManyRequests

\* C9: fail-open: a request for which CheckRateLimit returned an error is
\* passed to the handler below and is never answered 429; no request is
\* rejected with a store error.
C9_FailOpenOnStoreError ==
    \A r \in Procs :
        /\ (req[r].checked /\ req[r].rlErr) =>
            /\ req[r].decision = "next"
            /\ req[r].status # StatusTooManyRequests
            /\ (Done(r) => req[r].handlerRuns = 1)
        /\ (req[r].decision = "reject" => ~req[r].rlErr)

\* A request whose CheckRateLimit returned an error has been handled and
\* answered.
C9_Witness ==
    \E r \in Procs :
        /\ Done(r)
        /\ req[r].checked /\ req[r].rlErr
        /\ req[r].handlerRuns = 1
        /\ req[r].outcome = "ok"

\* C10: a panic of the handler is recovered: the process does not crash,
\* the request is answered with the error response, and a request that
\* arrives afterwards is served as any other.
C10_PanicRecovered ==
    /\ ~crashed
    /\ \A r \in Procs :
        Panicked(r) =>
            /\ req[r].status = StatusInternalServerError
            /\ req[r].body = "error"
    /\ \A r \in Procs :
        (req[r].afterPanic /\ Succeeded(r)) =>
            req[r].status = StatusOK /\ req[r].body = "handler"

\* A request that arrived after another's panic was answered has been
\* served by its handler.
C10_Witness ==
    \E r1, r2 \in Procs :
        /\ Panicked(r1)
        /\ req[r1].status = StatusInternalServerError
        /\ req[r2].afterPanic /\ Succeeded(r2)
        /\ req[r2].status = StatusOK

\* ---------------------------------------------------------------------
\* The header carrier under Set, Inject and Extract (SpecCarrier)
\* ---------------------------------------------------------------------

\* No rate limiter and no request.
LimiterIdle ==
    /\ store = [k \in Keys |-> EmptyKey]
    /\ cfg = MaxLimit
    /\ pc = <<>>
    /\ call = <<>>
    /\ req = <<>>
    /\ sinceCall = [k \in Keys |-> NoCall]
    /\ crashed = FALSE

\* At most one header per key.
NoDuplicateKeys(headers) ==
    \A i, j \in 1..Len(headers) : headers[i].key = headers[j].key => i = j

\* The header lists a carrier starts from: no duplicate keys.
InitialHeaders ==
    {<<>>}
    \cup {<<Header(k, v)>> : k \in CarrierKeys, v \in CarrierValues}
    \cup {<<Header(k[1], v), Header(k[2], v)>> :
             k \in {kk \in CarrierKeys \X CarrierKeys : kk[1] # kk[2]},
             v \in CarrierValues}

\* The record of Set calls: the last value per key, and whether the key
\* was set once or more often.
RECURSIVE RecordSets(_, _)
RecordSets(lastSet, calls) ==
    IF calls = <<>> THEN lastSet
    ELSE RecordSets(
             [lastSet EXCEPT ![Head(calls).key] =
                 [set |-> TRUE, value |-> Head(calls).value,
                  n |-> Min(@.n + 1, 2)]],
             Tail(calls))

\* hc.Set(key, value)
CarrierSet(key, value) ==
    /\ carrier' =
          [headers |-> Set(carrier.headers, key, value),
           lastSet |-> RecordSets(carrier.lastSet, <<Header(key, value)>>),
           injected |-> IF key \in {TraceparentHeader, TracestateHeader}
                        THEN NoneYet ELSE carrier.injected,
           extracted |-> NoneYet]
    /\ UNCHANGED <<limiter, kafka, obs, svc, ops, loop>>

\* otel.GetTextMapPropagator().Inject(ctx, carrier): one context is
\* injected into a header list, as PublishMessage does.
CarrierInject(ctx) ==
    /\ ~carrier.injected.done
    /\ carrier' =
          [headers |-> Inject(carrier.headers, ctx),
           lastSet |-> RecordSets(carrier.lastSet, InjectCalls(ctx)),
           injected |-> IF IsValid(ctx.sc)
                        THEN [done |-> TRUE, ctx |-> ctx]
                        ELSE carrier.injected,
           extracted |-> NoneYet]
    /\ UNCHANGED <<limiter, kafka, obs, svc, ops, loop>>

\* otel.GetTextMapPropagator().Extract(ctx, carrier), on a context without
\* span.
CarrierExtract ==
    /\ ~carrier.extracted.done
    /\ carrier' =
          [carrier EXCEPT !.extracted =
              [done |-> TRUE, ctx |-> Extract(carrier.headers, EmptyContext)]]
    /\ UNCHANGED <<limiter, kafka, obs, svc, ops, loop>>

InitCarrier ==
    /\ LimiterIdle
    /\ kafka = KafkaIdle
    /\ obs = ObsIdle
    /\ svc = SvcIdle
    /\ ops = <<>>
    /\ loop = <<>>
    /\ \E h \in InitialHeaders : carrier = [CarrierIdle EXCEPT !.headers = h]

NextCarrier ==
    \/ \E key \in CarrierKeys, value \in CarrierValues : CarrierSet(key, value)
    \/ \E ctx \in Contexts : CarrierInject(ctx)
    \/ CarrierExtract

SpecCarrier == InitCarrier /\ [][NextCarrier]_vars

\* C12: round trip of the carrier: a trace context injected into a header
\* list and then extracted from it comes back with the trace identifier and
\* the sampling flag it had.
C12_InjectExtractRoundTrip ==
    (carrier.injected.done /\ carrier.extracted.done) =>
        /\ carrier.extracted.ctx.sc.trace = carrier.injected.ctx.sc.trace
        /\ IsSampled(carrier.extracted.ctx.sc.flags)
               = IsSampled(carrier.injected.ctx.sc.flags)

\* A sampled context with a further flag bit and a tracestate has been
\* injected over headers that were there before, and extracted.
C12_Witness ==
    /\ carrier.injected.done /\ carrier.extracted.done
    /\ carrier.injected.ctx.sc.flags = 3
    /\ carrier.injected.ctx.sc.state # <<>>
    /\ IsSampled(carrier.extracted.ctx.sc.flags)
    /\ carrier.extracted.ctx.sc.trace # ZeroTraceID
    /\ Len(carrier.headers) >= 3

\* C13: Set replaces: from a header list without duplicate keys, after any
\* sequence of Set calls the list has at most one header per key, and Get
\* of a key returns the value of the most recent Set of that key.
C13_SetReplaces ==
    /\ NoDuplicateKeys(carrier.headers)
    /\ \A k \in CarrierKeys :
        carrier.lastSet[k].set => Get(carrier.headers, k) = carrier.lastSet[k].value

\* A key that is not the first of the list has been set twice or more.
C13_Witness ==
    \E i \in 2..Len(carrier.headers) :
        /\ carrier.lastSet[carrier.headers[i].key].n = 2
        /\ carrier.headers[i].value = carrier.lastSet[carrier.headers[i].key].value

\* ---------------------------------------------------------------------
\* Publishers, topic and consumer (SpecKafka)
\* ---------------------------------------------------------------------

\* The half-bytes the identifier generator of the SDK draws from: its
\* identifiers differ from each other and from those of the callers.
GeneratedNibbles == <<1, 2, 3, 4, 5, 6, 7, 8, 9, 11, 12, 13, 14, 15>>

\* The n-th identifier of the generator, len half-bytes long.
NewID(n, len) == [i \in 1..len |-> IF i < len THEN 0 ELSE GeneratedNibbles[n]]

\* tracer.Start(ctx, name) under sdktrace.AlwaysSample(): the span is the
\* child of the span context of ctx when that is valid, the root of a new
\* trace otherwise; it is sampled and keeps the tracestate of its parent.
\* The generator gives it its n-th identifier.
StartSpan(ctx, name, n) ==
    [name |-> name,
     trace |-> IF IsValid(ctx.sc) THEN ctx.sc.trace ELSE NewID(n, TraceIdLen),
     span |-> NewID(n, SpanIdLen),
     parent |-> IF IsValid(ctx.sc) THEN ctx.sc.span ELSE ZeroSpanID,
     remoteParent |-> IsValid(ctx.sc) /\ ctx.sc.remote,
     flags |-> FlagsSampled,
     state |-> IF IsValid(ctx.sc) THEN ctx.sc.state ELSE <<>>,
     errs |-> 0, ended |-> FALSE]

\* span.SpanContext()
SpanContextOf(span) ==
    [trace |-> span.trace, span |-> span.span, flags |-> span.flags,
     state |-> span.state, remote |-> FALSE]

\* trace.ContextWithSpan(ctx, span): what tracer.Start returns.
ContextWithSpan(ctx, span) == [sc |-> SpanContextOf(span), bag |-> ctx.bag]

\* The contexts PublishMessage is called with: no span; a sampled span with
\* tracestate and baggage; an unsampled span.
PublisherContexts ==
    {EmptyContext,
     [sc |-> [trace |-> [i \in 1..TraceIdLen |-> 10],
              span |-> [i \in 1..SpanIdLen |-> 10],
              flags |-> 1, state |-> <<"v", "=", "1">>, remote |-> FALSE],
      bag |-> <<"k", "=", "2">>],
     [sc |-> [trace |-> [i \in 1..TraceIdLen |-> IF i = 1 THEN 10 ELSE 0],
              span |-> [i \in 1..SpanIdLen |-> 10],
              flags |-> 0, state |-> <<>>, remote |-> FALSE],
      bag |-> <<>>]}

\* The contexts StartConsuming is called with: without and with a span.
ConsumerContexts ==
    {EmptyContext,
     [sc |-> [trace |-> [i \in 1..TraceIdLen |-> IF i = 1 THEN 0 ELSE 10],
              span |-> [i \in 1..SpanIdLen |-> 10],
              flags |-> 1, state |-> <<>>, remote |-> FALSE],
      bag |-> <<>>]}

\* The headers of messages of other producers: none, none of the
\* propagation keys, a traceparent in upper case.
ForeignHeaders ==
    {<<>>,
     <<Header("content-type", <<"a">>)>>,
     <<Header(TraceparentHeader,
              <<"0", "0", "-">> \o [i \in 1..TraceIdLen |-> "A"] \o <<"-">>
                  \o [i \in 1..SpanIdLen |-> "A"] \o <<"-", "0", "1">>)>>}

PublishedParentContext(ctx, span) == ctx

\* The context PublishMessage injects: the one tracer.Start returned, which
\* carries the kafka.publish span.
PublishedContext(ctx, span) == ContextWithSpan(ctx, span)

\* Publisher.PublishMessage(ctx, key, value): json.Marshal and
\* writer.WriteMessages succeed or fail.  The message records the span it
\* was published under.
PublishMessage(ctx, marshalOK, writeOK) ==
    /\ Len(kafka.topic) < NumMsgs
    /\ LET m == Len(kafka.topic) + 1
           written == marshalOK /\ writeOK
           span == StartSpan(ctx, "kafka.publish",
                             IF written THEN 2 * m - 1 ELSE 2 * NumMsgs + 1)
           headers == Inject(<<>>, PublishedContext(ctx, span))
       IN IF written
          THEN kafka' = [kafka EXCEPT
                   !.topic = Append(@,
                       [headers |-> headers,
                        pub |-> [span EXCEPT !.ended = TRUE],
                        con |-> NoSpan, handled |-> FALSE])]
          ELSE kafka' = [kafka EXCEPT
                   !.failed = [span EXCEPT !.errs = 1, !.ended = TRUE]]
    /\ UNCHANGED <<limiter, carrier, obs, svc, ops, loop>>

\* Another producer writes a message to the topic.
ForeignPublish(headers) ==
    /\ Len(kafka.topic) < NumMsgs
    /\ kafka' = [kafka EXCEPT
                    !.topic = Append(@,
                        [headers |-> headers, pub |-> NoSpan,
                         con |-> NoSpan, handled |-> FALSE])]
    /\ UNCHANGED <<limiter, carrier, obs, svc, ops, loop>>

\* One turn of the loop of Consumer.StartConsuming: ReadMessage, Extract,
\* tracer.Start, handler (which returns nil or an error), span.End.
Consume(handlerOK) ==
    /\ ~kafka.stopped
    /\ kafka.offset < Len(kafka.topic)
    /\ LET m == kafka.offset + 1
           msgCtx == Extract(kafka.topic[m].headers, kafka.consumerCtx)
           span == StartSpan(msgCtx, "kafka.consume", 2 * m)
       IN kafka' =
            [kafka EXCEPT
                !.offset = m,
                !.topic[m].handled = TRUE,
                !.topic[m].con =
                    [span EXCEPT !.errs = IF handlerOK THEN 0 ELSE 1,
                                 !.ended = TRUE]]
    /\ UNCHANGED <<limiter, carrier, obs, svc, ops, loop>>

\* reader.ReadMessage fails or ctx is done: StartConsuming returns.
ReadFail ==
    /\ ~kafka.stopped
    /\ kafka' = [kafka EXCEPT !.stopped = TRUE]
    /\ UNCHANGED <<limiter, carrier, obs, svc, ops, loop>>

InitKafka ==
    /\ LimiterIdle
    /\ carrier = CarrierIdle
    /\ obs = ObsIdle
    /\ svc = SvcIdle
    /\ ops = <<>>
    /\ loop = <<>>
    /\ \E ctx \in ConsumerContexts :
          kafka = [KafkaIdle EXCEPT !.consumerCtx = ctx]

NextKafka ==
    \/ \E ctx \in PublisherContexts, marshalOK, writeOK \in BOOLEAN :
          PublishMessage(ctx, marshalOK, writeOK)
    \/ \E headers \in ForeignHeaders : ForeignPublish(headers)
    \/ \E handlerOK \in BOOLEAN : Consume(handlerOK)
    \/ ReadFail

SpecKafka == InitKafka /\ [][NextKafka]_vars

\* The messages the consumer has read, and those of PublishMessage.
Consumed == 1..kafka.offset
Published(m) == kafka.topic[m].pub # NoSpan

\* C11: a message published by PublishMessage and read by StartConsuming
\* continues the trace: its kafka.consume span has the trace identifier of
\* its kafka.publish span, and the kafka.publish span is its parent.
C11_ConsumeContinuesPublishTrace ==
    \A m \in Consumed :
        Published(m) =>
            /\ kafka.topic[m].con.name = "kafka.consume"
            /\ kafka.topic[m].con.trace = kafka.topic[m].pub.trace
            /\ kafka.topic[m].con.parent = kafka.topic[m].pub.span
            /\ kafka.topic[m].con.remoteParent

\* A message published under an active trace has been consumed by a
\* consumer whose own context carries a span of another trace.
C11_Witness ==
    \E m \in Consumed :
        /\ Published(m)
        /\ kafka.topic[m].pub.parent # ZeroSpanID
        /\ IsValid(kafka.consumerCtx.sc)
        /\ kafka.topic[m].con.trace = kafka.topic[m].pub.trace
        /\ kafka.topic[m].con.trace # kafka.consumerCtx.sc.trace

\* The message has none of the trace-context keys among its headers.
NoTraceKeys(m) ==
    \A i \in 1..Len(kafka.topic[m].headers) :
        kafka.topic[m].headers[i].key \notin TraceKeys

\* C14: a message without trace-context headers is consumed all the same:
\* Get returns the empty string for each missing key, and StartConsuming
\* starts a kafka.consume span, the root of a new trace, and invokes the
\* handler.
C14_NoHeadersStillConsumedAsRoot ==
    \A m \in Consumed :
        NoTraceKeys(m) =>
            /\ \A k \in TraceKeys : Get(kafka.topic[m].headers, k) = <<>>
            /\ kafka.topic[m].handled
            /\ kafka.topic[m].con.name = "kafka.consume"
            /\ kafka.topic[m].con.parent = ZeroSpanID
            /\ kafka.topic[m].con.trace # kafka.consumerCtx.sc.trace

\* ---------------------------------------------------------------------
\* Logger and external clients (SpecObs)
\* ---------------------------------------------------------------------

\* span.IsRecording(): false for the span of a context without span and
\* for a span that has ended.
SpanIsRecording(span) == span # NoSpan /\ ~span.ended

\* span.RecordError(err): nothing once the span has ended.
RecordError(span) ==
    IF SpanIsRecording(span) THEN [span EXCEPT !.errs = @ + 1] ELSE span

\* span.End()
SpanEnd(span) == IF span = NoSpan THEN span ELSE [span EXCEPT !.ended = TRUE]

\* The context that carries a span, and the one that carries none.
ContextOf(span) ==
    IF span = NoSpan THEN EmptyContext ELSE ContextWithSpan(EmptyContext, span)

\* The contexts a span is started under: no span, the span of a caller.
ParentContexts ==
    {EmptyContext,
     [sc |-> [trace |-> [i \in 1..TraceIdLen |-> 10],
              span |-> [i \in 1..SpanIdLen |-> 10],
              flags |-> 1, state |-> <<>>, remote |-> TRUE],
      bag |-> <<>>]}

Field(k, v) == [key |-> k, value |-> v]

\* The fields a caller gives to a log call.
GivenFields ==
    SUBSET {Field("user_id", <<"a">>), Field("amount", <<"b">>)}

Levels == {"info", "error"}

TraceFieldKeys == {"trace_id", "span_id"}

\* The fields of the identifiers of a span: TraceID().String() and
\* SpanID().String().
TraceFields(span) ==
    {Field("trace_id", EncodeHex(span.trace)),
     Field("span_id", EncodeHex(span.span))}

WithTraceAlways(span) == TraceFields(span)

\* Logger.WithTrace(ctx), on the span of ctx: the fields it adds to the
\* logger.
WithTrace(span) ==
    IF ~SpanIsRecording(span) THEN {} ELSE TraceFields(span)

\* logger.WithTrace(ctx).Info(msg, fields...) or .Error(msg, fields...):
\* the record that is emitted.
LogRecord(span, level, given) ==
    [level |-> level, given |-> given,
     fields |-> given \cup WithTrace(span), span |-> span]

\* The timeouts of the resty clients, in seconds.
MTNPayTimeout == 30
SOATimeout == 25

Clients == {"mtnpay.process_payment", "soa.check_inventory"}

ClientTimeout(client) ==
    IF client = "mtnpay.process_payment" THEN MTNPayTimeout ELSE SOATimeout

\* The deadline of the caller's context, in seconds; 0 when it has none.
Deadlines == {0, 10, 28, 40}
HasDeadline(deadline) == deadline > 0

\* The time the remote side takes to answer, in seconds.
Durations == {5, 20, 27, 35}

\* What the remote side answers when it is given the time.
Responses == {"ok", "http_error", "transport"}

\* c.client.R().SetContext(ctx)...Post(path): the request ends when the
\* deadline of ctx or the client's timeout has passed, whichever comes
\* first, and otherwise with the answer of the remote side.
RequestCause(client, deadline, duration, response) ==
    LET timeout == ClientTimeout(client)
    IN IF HasDeadline(deadline) /\ deadline <= timeout /\ deadline <= duration
       THEN "deadline"
       ELSE IF timeout <= duration THEN "timeout"
       ELSE response

ReturnedEndFirst(span, failed) ==
    IF failed THEN RecordError(SpanEnd(span)) ELSE SpanEnd(span)

\* The way out of a client operation: span.RecordError(err) on the error
\* paths, then the deferred span.End().
Returned(span, failed) ==
    SpanEnd(IF failed THEN RecordError(span) ELSE span)

\* MTNPayClient.ProcessPayment and SOAClient.CheckInventory: tracer.Start,
\* the request, err != nil or resp.IsError() or the result.
ClientOperation(ctx, client, deadline, duration, response) ==
    LET cause == RequestCause(client, deadline, duration, response)
        failed == cause # "ok"
    IN [client |-> client, deadline |-> deadline, duration |-> duration,
        cause |-> cause, err |-> failed,
        span |-> Returned(StartSpan(ctx, client, 2), failed)]

\* tracer.Start(ctx, name): the context now carries an open span.
ObsStart(ctx) ==
    /\ obs.span = NoSpan
    /\ obs' = [obs EXCEPT !.span = StartSpan(ctx, "operation", 1)]
    /\ UNCHANGED <<limiter, carrier, kafka, svc, ops, loop>>

\* span.End(): the context still carries the span.
ObsEnd ==
    /\ SpanIsRecording(obs.span)
    /\ obs' = [obs EXCEPT !.span = SpanEnd(@)]
    /\ UNCHANGED <<limiter, carrier, kafka, svc, ops, loop>>

\* A log call with the context.
ObsLog(level, given) ==
    /\ obs' = [obs EXCEPT !.log = LogRecord(obs.span, level, given)]
    /\ UNCHANGED <<limiter, carrier, kafka, svc, ops, loop>>

\* A call of an external client with the context.
ObsCall(client, deadline, duration, response) ==
    /\ obs' = [obs EXCEPT !.out =
                  ClientOperation(ContextOf(obs.span), client, deadline,
                                  duration, response)]
    /\ UNCHANGED <<limiter, carrier, kafka, svc, ops, loop>>

InitObs ==
    /\ LimiterIdle
    /\ carrier = CarrierIdle
    /\ kafka = KafkaIdle
    /\ obs = ObsIdle
    /\ svc = SvcIdle
    /\ ops = <<>>
    /\ loop = <<>>

NextObs ==
    \/ \E ctx \in ParentContexts : ObsStart(ctx)
    \/ ObsEnd
    \/ \E level \in Levels, given \in GivenFields : ObsLog(level, given)
    \/ \E client \in Clients, deadline \in Deadlines, duration \in Durations,
          response \in Responses :
          ObsCall(client, deadline, duration, response)

SpecObs == InitObs /\ [][NextObs]_vars

Logged == obs.log # NoRecord

KeysOf(fields) == {f.key : f \in fields}

\* C15: a log call whose context carries no span emits a record with
\* exactly the fields it was given, at the level of the call, and without
\* a trace_id or span_id field.
C15_NoSpanNoTraceFields ==
    (Logged /\ obs.log.span = NoSpan) =>
        /\ obs.log.level \in Levels
        /\ obs.log.fields = obs.log.given
        /\ KeysOf(obs.log.fields) \cap TraceFieldKeys = {}

\* A record with fields has been emitted from a context without span.
C15_Witness ==
    /\ Logged
    /\ obs.log.span = NoSpan
    /\ obs.log.fields # {}

\* C16: a log call whose context carries a span, open or already ended,
\* emits a record with the trace identifier and the span identifier of
\* that span.
C16_SpanOpenOrEndedHasTraceFields ==
    (Logged /\ obs.log.span # NoSpan) =>
        TraceFields(obs.log.span) \subseteq obs.log.fields

\* C17: a client operation whose request ended because the deadline of
\* the caller's context expired returns an error, and its span has the
\* error recorded and is ended.
C17_DeadlineErrorRecordedOnSpan ==
    obs.out.cause = "deadline" =>
        /\ obs.out.err
        /\ obs.out.span.errs >= 1
        /\ obs.out.span.ended

\* A call with a deadline shorter than the client's timeout and than the
\* remote side's answer has returned, under the span of its caller.
C17_Witness ==
    /\ obs.out.cause = "deadline"
    /\ obs.out.deadline < obs.out.duration
    /\ obs.out.deadline < ClientTimeout(obs.out.client)
    /\ obs.out.span.parent # ZeroSpanID

\* ---------------------------------------------------------------------
\* Tracer provider, exporter and server (SpecService)
\* ---------------------------------------------------------------------

\* The spans a batch span processor holds for its exporter; those that
\* end while it is full are dropped.
MaxQueue == 2

\* config.JaegerEndpoint: unset, or the address of a collector.
Endpoints == {"", "collector:4318"}

SetupTracingNoFallback(endpoint, otlpOK) ==
    IF endpoint # "" /\ ~otlpOK THEN [err |-> TRUE, exporters |-> <<>>]
    ELSE [err |-> FALSE,
          exporters |-> IF endpoint # "" THEN <<"otlp">> ELSE <<>>]

\* TelemetryManager.setupTracing: the error it returns and the exporters
\* whose processors it registers.  otlptracehttp.New succeeds or fails;
\* newConsoleExporter always succeeds.
SetupTracing(endpoint, otlpOK) ==
    IF endpoint # "" /\ ~otlpOK THEN [err |-> TRUE, exporters |-> <<>>]
    ELSE LET otlp == IF endpoint # "" THEN <<"otlp">> ELSE <<>>
         IN [err |-> FALSE,
             exporters |-> IF Len(otlp) = 0 THEN Append(otlp, "console")
                           ELSE otlp]

HasExporter(kind) ==
    \E i \in 1..Len(svc.exporters) : svc.exporters[i] = kind

\* main: NewTelemetryManager, whose error is fatal, then the stores, the
\* app and app.Listen.
Start(endpoint, otlpOK) ==
    /\ svc.setup = "none"
    /\ LET t == SetupTracing(endpoint, otlpOK)
       IN svc' = [svc EXCEPT !.endpoint = endpoint,
                             !.setup = IF t.err THEN "failed" ELSE "ok",
                             !.exporters = t.exporters,
                             !.up = ~t.err]
    /\ UNCHANGED <<limiter, carrier, kafka, obs, ops, loop>>

\* The middleware main registers with app.Use, in this order.
Registered ==
    <<"recover", "cors", "RequestTracing", "RequestMetrics",
      "RequestLogging", "RateLimit">>

Uses(m) == \E i \in 1..Len(Registered) : Registered[i] = m

HealthPath == "/v1/health"
Paths == {HealthPath, "/v1/users"}

\* What CheckRateLimit gives RateLimit for a request: the count of the
\* client's window, an error while Redis cannot be reached.
LimiterCall(redisUp, count) ==
    [IdleCall EXCEPT !.val = IF redisUp THEN count ELSE 0, !.err = ~redisUp]

\* The counts of the windows: within the limit, beyond it.
WindowCounts == {1, MaxLimit + 1}

\* healthHandler: it answers "healthy" and asks neither store.
healthHandler(q) ==
    [q EXCEPT !.handlerRuns = @ + 1, !.outcome = "ok", !.result = "nil",
              !.body = "healthy"]

\* The HealthCheck middleware: mongodb.IsConnected and redis.IsConnected
\* decide between "healthy" and "degraded".
HealthCheck(q, mongoUp, redisUp) ==
    [q EXCEPT !.handlerRuns = @ + 1, !.outcome = "ok", !.result = "nil",
              !.body = IF mongoUp /\ redisUp THEN "healthy" ELSE "degraded",
              !.status = IF mongoUp /\ redisUp THEN StatusOK
                         ELSE StatusPartialContent]

\* How the handler of a route ends: as in Outcomes, or with the error of a
\* downstream call that timed out.
RouteOutcomes == Outcomes \cup {"timeout"}

\* The handler of another route: it answers, returns an error (its own or
\* that of a downstream call that timed out) or panics.
RouteHandler(q, o) ==
    [q EXCEPT !.handlerRuns = @ + 1, !.outcome = o,
              !.result = CASE o = "ok" -> "nil"
                           [] o = "error" -> "err"
                           [] o = "timeout" -> "err"
                           [] o = "panic" -> "panic",
              !.body = IF o = "ok" THEN "handler" ELSE @]

\* A request runs down the stack of main and back.
ServeRequest(path, c, o, mongoUp, redisUp) ==
    LET d == RateLimitDecision(c, MaxLimit)
        q0 == IF Uses("RequestTracing") THEN RequestTracingBefore(IdleReq)
              ELSE IdleReq
        q1 == [q0 EXCEPT !.checked = TRUE,
                         !.allowed = CheckRateLimitResult(c, MaxLimit),
                         !.rlErr = c.err, !.decision = d]
        q2 == IF Uses("RateLimit") /\ d = "reject"
              THEN [q1 EXCEPT !.status = StatusTooManyRequests,
                              !.body = "Rate limit exceeded",
                              !.result = "nil"]
              ELSE IF path = HealthPath /\ Uses("HealthCheck")
              THEN HealthCheck(q1, mongoUp, redisUp)
              ELSE IF path = HealthPath THEN healthHandler(q1)
              ELSE RouteHandler(q1, o)
    IN Respond(q2)

\* BatchSpanProcessor.OnEnd: the ended spans are queued for the exporter
\* while there is room.
OnEnd(queue, n) == Min(queue + n, MaxQueue)

\* The server answers a request.  The span of RequestTracing ends and is
\* handed to the processor.
Serve(path, count, o) ==
    /\ svc.up
    /\ path = HealthPath => o = "ok"
    /\ LET q == ServeRequest(path, LimiterCall(svc.redisUp, count), o,
                             svc.mongoUp, svc.redisUp)
       IN svc' = [svc EXCEPT
                     !.queue = OnEnd(@, q.spanEnds),
                     !.last = [path |-> path, outcome |-> q.outcome,
                               status |-> q.status, body |-> q.body,
                               spans |-> q.spanStarts,
                               exportFailed |-> svc.exportFailed,
                               redisUp |-> svc.redisUp,
                               mongoUp |-> svc.mongoUp]]
    /\ UNCHANGED <<limiter, carrier, kafka, obs, ops, loop>>

HandleExportErrorFatal(s) == [s EXCEPT !.exportFailed = TRUE, !.up = FALSE]

\* The error of ExportSpans goes to the error handler of the SDK and no
\* further.
HandleExportError(s) == [s EXCEPT !.exportFailed = TRUE]

\* The batch span processor, on its own goroutine, hands the queued spans
\* to the exporter.  The console exporter always returns nil; the OTLP
\* exporter may fail, and the batch is lost.
Export(ok) ==
    /\ svc.setup = "ok"
    /\ svc.queue > 0
    /\ ok \/ HasExporter("otlp")
    /\ LET s == [svc EXCEPT !.queue = 0]
       IN svc' = IF ok THEN s ELSE HandleExportError(s)
    /\ UNCHANGED <<limiter, carrier, kafka, obs, ops, loop>>

\* Redis or MongoDB becomes unreachable, or reachable again.
StoreFlip(name) ==
    /\ svc.up
    /\ svc' = IF name = "redis" THEN [svc EXCEPT !.redisUp = ~@]
              ELSE [svc EXCEPT !.mongoUp = ~@]
    /\ UNCHANGED <<limiter, carrier, kafka, obs, ops, loop>>

InitService ==
    /\ LimiterIdle
    /\ carrier = CarrierIdle
    /\ kafka = KafkaIdle
    /\ obs = ObsIdle
    /\ svc = SvcIdle
    /\ ops = <<>>
    /\ loop = <<>>

NextService ==
    \/ \E endpoint \in Endpoints, otlpOK \in BOOLEAN : Start(endpoint, otlpOK)
    \/ \E path \in Paths, count \in WindowCounts, o \in RouteOutcomes :
          Serve(path, count, o)
    \/ \E ok \in BOOLEAN : Export(ok)
    \/ \E name \in {"redis", "mongodb"} : StoreFlip(name)

SpecService == InitService /\ [][NextService]_vars

Served == svc.last # NoResponse

\* The status of the response to a request, from what the limiter and the
\* handler did with it.
ExpectedStatus(outcome) ==
    CASE outcome = "none" -> StatusTooManyRequests
      [] outcome = "ok" -> StatusOK
      [] OTHER -> StatusInternalServerError

\* C18: the response to a request is the same whether the exporter
\* succeeds or fails: its status follows from the limiter's decision and
\* the handler's result alone, and a step of the exporter, failing or not,
\* changes neither a response nor the server's readiness to serve.
C18_ExporterFailureNotPropagated ==
    [][/\ svc'.last # NoResponse =>
            svc'.last.status = ExpectedStatus(svc'.last.outcome)
       /\ (svc'.queue < svc.queue \/ svc'.exportFailed # svc.exportFailed) =>
            (svc'.last = svc.last /\ svc'.up = svc.up)]_vars

\* A request has been answered 200 after the exporter had failed.
C18_Witness ==
    /\ Served
    /\ svc.last.exportFailed
    /\ svc.last.outcome = "ok"
    /\ svc.last.status = StatusOK

\* C19: after setupTracing has succeeded the tracer provider has an
\* exporter: the OTLP exporter if and only if the endpoint is set, the
\* console exporter if and only if it is not.
C19_AlwaysOneExporter ==
    svc.setup = "ok" =>
        /\ Len(svc.exporters) >= 1
        /\ HasExporter("otlp") <=> svc.endpoint # ""
        /\ HasExporter("console") <=> svc.endpoint = ""

\* Without endpoint, a span has ended and the console exporter has taken
\* it.
C19_Witness ==
    /\ svc.setup = "ok"
    /\ svc.endpoint = ""
    /\ svc.exporters = <<"console">>
    /\ Served
    /\ svc.last.spans > 0
    /\ svc.queue = 0

\* C20: GET /v1/health does not answer "healthy" while the ping of Redis
\* or of MongoDB fails, and it is served without a span of the tracing
\* middleware.
C20_HealthReportsStoresUntraced ==
    (Served /\ svc.last.path = HealthPath) =>
        /\ (~svc.last.redisUp \/ ~svc.last.mongoUp) =>
               svc.last.body # "healthy"
        /\ svc.last.spans = 0

\* C21: a request whose handler failed on a downstream call that timed out
\* is answered with a status other than the one of generic internal
\* failures.
C21_TimeoutStatusDistinct ==
    (Served /\ svc.last.outcome = "timeout") =>
        svc.last.status # StatusInternalServerError

\* ---------------------------------------------------------------------
\* The order of the steps of a request (Spec)
\* ---------------------------------------------------------------------

\* The steps of a request that is admitted and whose handler returns, of
\* one that the limiter rejects, and of one whose handler panics.
AdmittedTrace ==
    <<"span_start", "rate_limit", "handler", "log", "metrics", "span_end">>
RejectedTrace == <<"span_start", "rate_limit", "log", "metrics", "span_end">>
PanicTrace == <<"span_start", "rate_limit", "handler", "span_end">>

IsPrefix(a, b) == Len(a) <= Len(b) /\ SubSeq(b, 1, Len(a)) = a

\* The place of a step among the steps of a request; 0 when it is not there.
IndexOf(t, e) ==
    IF \E i \in 1..Len(t) : t[i] = e
    THEN CHOOSE i \in 1..Len(t) : t[i] = e /\ \A j \in 1..(i - 1) : t[j] # e
    ELSE 0

C23_MetricsOnceInsideSpan ==
    \A r \in Procs :
        (Done(r) /\ ~Panicked(r)) =>
            /\ req[r].counted = 1
            /\ req[r].durations = 1
            /\ IndexOf(req[r].trace, "span_start") >= 1
            /\ IndexOf(req[r].trace, "span_start")
                   < IndexOf(req[r].trace, "metrics")
            /\ IndexOf(req[r].trace, "metrics")
                   < IndexOf(req[r].trace, "span_end")

\* A request has failed with an error of its handler, another was
\* rejected, and both were counted.
C23_Witness ==
    \E r1, r2 \in Procs :
        /\ Failed(r1) /\ req[r1].counted = 1
        /\ RejectedByLimiter(r2) /\ req[r2].durations = 1

\* ---------------------------------------------------------------------
\* The spans of the operations (SpecSpans)
\* ---------------------------------------------------------------------

\* The callers that run an operation each.
NumOps == 2

\* A span as the calls made on it, in order: "start", then "attr" for
\* SetAttributes, "error" for RecordError, "end" for End.  layer tells the
\* code that started it: the operation itself, or a hook of the Redis
\* client.
Started(layer, name) == [layer |-> layer, name |-> name, events |-> <<"start">>]
SetAttributes(l) == [l EXCEPT !.events = Append(@, "attr")]
AddError(l) == [l EXCEPT !.events = Append(@, "error")]
Ended(l) == [l EXCEPT !.events = Append(@, "end")]

\* The wrapper's cache and pub/sub operations.
RedisCommands == {"get", "set", "del", "exists", "incr", "expire", "publish"}

OpKinds == {"redis", "rate_limit", "client", "publish", "consume", "request"}

OpNames(kind) ==
    CASE kind = "redis" -> RedisCommands
      [] kind = "rate_limit" -> {"rate_limit"}
      [] kind = "client" -> Clients
      [] kind = "publish" -> {"kafka.publish"}
      [] kind = "consume" -> {"kafka.consume"}
      [] kind = "request" -> {"request"}

\* How the operations end.  "nil" is redis.Nil, the answer of GET for a
\* missing key.
OpResults(kind, name) ==
    CASE kind = "redis" ->
             IF name = "get" THEN {"ok", "nil", "error"} ELSE {"ok", "error"}
      [] kind = "rate_limit" -> {"ok", "error"}
      [] kind = "client" -> {"ok", "http_error", "transport", "deadline"}
      [] kind = "publish" -> {"ok", "marshal", "write"}
      [] kind = "consume" -> {"ok", "error"}
      [] kind = "request" -> {"ok", "error", "panic"}

IdleOp == [pc |-> "idle", kind |-> "none", name |-> "none",
           result |-> "none", spans |-> <<>>]

\* tracingHook.DialHook: the span of a dial, which has returned when the
\* command is sent.
DialSpan == Ended(Started("dial", "dial"))

\* The spans that are open while the operation waits for the other side.
\* The wrapper's operations start their span and call r.Client, whose
\* tracingHook starts another (ProcessHook for a command,
\* ProcessPipelineHook for the pipeline of CheckRateLimit), and one more
\* when the client has to dial.
Begun(kind, name, dial) ==
    IF kind \in {"redis", "rate_limit"}
    THEN <<Started("operation", name),
           Started("hook", IF kind = "redis" THEN name ELSE "pipeline")>>
         \o (IF dial THEN <<DialSpan>> ELSE <<>>)
    ELSE <<Started("operation", name)>>

\* tracingHook.ProcessHook and ProcessPipelineHook, after next().
HookReturn(l, result) ==
    Ended(IF result # "ok" THEN AddError(l) ELSE l)

\* Redis.Get ... Redis.Publish, after r.Client returned.
RedisReturn(l, name, result) ==
    IF name = "get"
    THEN Ended(CASE result = "ok" -> SetAttributes(l)
                 [] result = "nil" -> SetAttributes(AddError(l))
                 [] OTHER -> AddError(l))
    ELSE Ended(IF result # "ok" THEN AddError(l) ELSE l)

\* Redis.CheckRateLimit, after pipe.Exec returned.
CheckRateLimitReturn(l, result) ==
    Ended(IF result # "ok" THEN AddError(l) ELSE SetAttributes(l))

\* ProcessPayment and CheckInventory, after the request returned.
ClientReturn(l, result) ==
    Ended(CASE result \in {"transport", "deadline"} -> AddError(l)
            [] result = "http_error" -> AddError(SetAttributes(l))
            [] OTHER -> SetAttributes(SetAttributes(l)))

\* PublishMessage, after json.Marshal and WriteMessages.
PublishReturn(l, result) ==
    Ended(IF result # "ok" THEN AddError(l) ELSE SetAttributes(l))

ConsumeReturnEndFirst(l, result) ==
    IF result # "ok" THEN AddError(Ended(l)) ELSE Ended(l)

\* StartConsuming, after the handler returned.
ConsumeReturn(l, result) ==
    Ended(IF result # "ok" THEN AddError(l) ELSE l)

\* RequestTracing, after c.Next(): a panic leaves only the deferred End.
RequestReturn(l, result) ==
    Ended(CASE result = "panic" -> l
            [] result = "error" -> AddError(SetAttributes(l))
            [] OTHER -> SetAttributes(l))

\* The spans of an operation when it has returned.
Finished(spans, kind, name, result) ==
    [i \in 1..Len(spans) |->
        IF spans[i].layer = "hook" THEN HookReturn(spans[i], result)
        ELSE IF spans[i].layer = "dial" THEN spans[i]
        ELSE CASE kind = "redis" -> RedisReturn(spans[i], name, result)
               [] kind = "rate_limit" -> CheckRateLimitReturn(spans[i], result)
               [] kind = "client" -> ClientReturn(spans[i], result)
               [] kind = "publish" -> PublishReturn(spans[i], result)
               [] kind = "consume" -> ConsumeReturn(spans[i], result)
               [] kind = "request" -> RequestReturn(spans[i], result)]

\* A caller starts an operation, up to the point where it waits.
OpBegin(c, kind, name, dial) ==
    /\ ops[c].pc = "idle"
    /\ dial => kind \in {"redis", "rate_limit"}
    /\ ops' = [ops EXCEPT ![c] =
                  [pc |-> "sent", kind |-> kind, name |-> name,
                   result |-> "none", spans |-> Begun(kind, name, dial)]]
    /\ UNCHANGED <<limiter, carrier, kafka, obs, svc, loop>>

\* The operation returns to its caller.
OpReturn(c, result) ==
    /\ ops[c].pc = "sent"
    /\ result \in OpResults(ops[c].kind, ops[c].name)
    /\ ops' = [ops EXCEPT ![c].pc = "returned",
                          ![c].result = result,
                          ![c].spans = Finished(ops[c].spans, ops[c].kind,
                                                ops[c].name, result)]
    /\ UNCHANGED <<limiter, carrier, kafka, obs, svc, loop>>

InitSpans ==
    /\ LimiterIdle
    /\ carrier = CarrierIdle
    /\ kafka = KafkaIdle
    /\ obs = ObsIdle
    /\ svc = SvcIdle
    /\ ops = [c \in 1..NumOps |-> IdleOp]
    /\ loop = <<>>

AllResults == UNION {OpResults(k, n) : k \in OpKinds, n \in RedisCommands}

NextSpans ==
    \/ \E c \in DOMAIN ops, kind \in OpKinds, dial \in BOOLEAN :
          \E name \in OpNames(kind) : OpBegin(c, kind, name, dial)
    \/ \E c \in DOMAIN ops, result \in AllResults : OpReturn(c, result)

SpecSpans == InitSpans /\ [][NextSpans]_vars

\* The number of End calls on a span.
Ends(l) == Cardinality({i \in 1..Len(l.events) : l.events[i] = "end"})

\* C24: every cache operation issued through the Redis wrapper (Get, Set,
\* Del, Exists, Incr, Expire, Publish) produces exactly one span.
C24_OneSpanPerRedisOperation ==
    \A c \in DOMAIN ops :
        (ops[c].pc = "returned" /\ ops[c].kind = "redis") =>
            Len(ops[c].spans) = 1

\* C25: a span started by an operation is ended exactly once on every
\* return path of the operation, and End is the last call made on it.
C25_SpansEndedOnceAndLast ==
    \A c \in DOMAIN ops :
        \A i \in 1..Len(ops[c].spans) :
            LET l == ops[c].spans[i]
            IN /\ Ends(l) <= 1
               /\ Ends(l) = 1 => l.events[Len(l.events)] = "end"
               /\ ops[c].pc = "returned" => Ends(l) = 1

\* A consumer's handler has failed and a rate-limit pipeline has failed,
\* and both operations have returned.
C25_Witness ==
    \E c1, c2 \in DOMAIN ops :
        /\ ops[c1].pc = "returned" /\ ops[c1].kind = "consume"
        /\ ops[c1].result = "error"
        /\ ops[c2].pc = "returned" /\ ops[c2].kind = "rate_limit"
        /\ ops[c2].result = "error"

\* ---------------------------------------------------------------------
\* The consumer loop and the simulated calls under a context (SpecLoop)
\* ---------------------------------------------------------------------

\* time.Sleep of the simulated calls, in ticks of the clock: none, short,
\* long.
SleepTicks == {0, 1, 3}

\* The simulated calls: SimulateError(ctx, "timeout"), which sleeps and
\* returns an error; SimulateError(ctx, "network"), which returns an error
\* at once; SimulateDegradation(ctx, delayMs), which sleeps and returns nil.
SimKinds == {"timeout", "network", "degradation"}

SimSleep(kind, delay) ==
    CASE kind = "timeout" -> 3
      [] kind = "network" -> 0
      [] kind = "degradation" -> delay

\* The error a simulated call returns; the context is not looked at.
SimError(kind, ctxDone) == kind # "degradation"

IdleSim == [pc |-> "idle", kind |-> "none", left |-> 0, overrun |-> 0,
            err |-> FALSE, doneAtReturn |-> FALSE]

\* A message of the loop: the calls of its handler, its kafka.consume span,
\* whether the context was done when the handler was invoked, and how the
\* handler ended.
NoMessage ==
    [runs |-> 0, span |-> Started("operation", "kafka.consume"),
     lateStart |-> FALSE, result |-> "none"]

\* pc: "select" at the top of the loop, "reading" in ReadMessage, "got" with
\* a message in hand, "handler" while the handler runs, "returned".
IdleLoop ==
    [pc |-> "select", ctxDone |-> FALSE, offset |-> 0, running |-> {},
     msgs |-> <<>>, err |-> "none", sim |-> IdleSim]

\* The caller's context is cancelled or its deadline expires.
Cancel ==
    /\ ~loop.ctxDone
    /\ loop' = [loop EXCEPT !.ctxDone = TRUE]
    /\ UNCHANGED <<limiter, carrier, kafka, obs, svc, ops>>

\* select: case <-ctx.Done() returns ctx.Err(); default goes on to read.
Select ==
    /\ loop.pc = "select"
    /\ loop' = IF loop.ctxDone
               THEN [loop EXCEPT !.pc = "returned", !.err = "ctx"]
               ELSE [loop EXCEPT !.pc = "reading"]
    /\ UNCHANGED <<limiter, carrier, kafka, obs, svc, ops>>

\* c.reader.ReadMessage(ctx) returns a message.
ReadMessage ==
    /\ loop.pc = "reading"
    /\ ~loop.ctxDone
    /\ loop.offset < NumMsgs
    /\ loop' = [loop EXCEPT !.pc = "got", !.offset = @ + 1,
                            !.msgs = Append(@, NoMessage)]
    /\ UNCHANGED <<limiter, carrier, kafka, obs, svc, ops>>

\* c.reader.ReadMessage(ctx) returns an error, as it does once the context
\* is done: StartConsuming returns it.
ReadError ==
    /\ loop.pc = "reading"
    /\ loop' = [loop EXCEPT !.pc = "returned", !.err = "read"]
    /\ UNCHANGED <<limiter, carrier, kafka, obs, svc, ops>>

InvokeAsync(l, m) ==
    [l EXCEPT !.running = @ \cup {m}, !.pc = "select",
              !.msgs[m].runs = @ + 1, !.msgs[m].lateStart = l.ctxDone]

\* handler(msgCtx, key, value), called inline: the loop waits for it.
Invoke(l, m) ==
    [l EXCEPT !.running = @ \cup {m}, !.pc = "handler",
              !.msgs[m].runs = @ + 1, !.msgs[m].lateStart = l.ctxDone]

\* Extract, c.tracer.Start and the call of the handler.
HandlerStart ==
    /\ loop.pc = "got"
    /\ loop' = Invoke(loop, loop.offset)
    /\ UNCHANGED <<limiter, carrier, kafka, obs, svc, ops>>

HandlerReturnedStop(l, m, result) ==
    [l EXCEPT !.running = @ \ {m},
              !.msgs[m].result = result,
              !.msgs[m].span = ConsumeReturn(@, result),
              !.pc = IF result = "ok" THEN "select" ELSE "returned",
              !.err = IF result = "ok" THEN @ ELSE "handler"]

\* The handler has returned: span.RecordError for its error, span.End(),
\* and the loop goes round.
HandlerReturned(l, m, result) ==
    [l EXCEPT !.running = @ \ {m},
              !.msgs[m].result = result,
              !.msgs[m].span = ConsumeReturn(@, result),
              !.pc = IF @ = "handler" THEN "select" ELSE @]

HandlerReturn(m, result) ==
    /\ m \in loop.running
    /\ loop' = HandlerReturned(loop, m, result)
    /\ UNCHANGED <<limiter, carrier, kafka, obs, svc, ops>>

\* SimulateError or SimulateDegradation is called with the context and
\* goes to sleep.
SimStart(kind, delay) ==
    /\ loop.sim.pc = "idle"
    /\ loop' = [loop EXCEPT !.sim =
                   [IdleSim EXCEPT !.pc = "sleeping", !.kind = kind,
                                   !.left = SimSleep(kind, delay)]]
    /\ UNCHANGED <<limiter, carrier, kafka, obs, svc, ops>>

\* A tick of the clock passes in time.Sleep; overrun counts the ticks slept
\* with the context done.
SimTick ==
    /\ loop.sim.pc = "sleeping"
    /\ loop.sim.left > 0
    /\ loop' = [loop EXCEPT !.sim.left = @ - 1,
                            !.sim.overrun = IF loop.ctxDone THEN @ + 1 ELSE @]
    /\ UNCHANGED <<limiter, carrier, kafka, obs, svc, ops>>

\* time.Sleep is over and the simulated call returns.
SimReturn ==
    /\ loop.sim.pc = "sleeping"
    /\ loop.sim.left = 0
    /\ loop' = [loop EXCEPT !.sim.pc = "returned",
                            !.sim.err = SimError(loop.sim.kind, loop.ctxDone),
                            !.sim.doneAtReturn = loop.ctxDone]
    /\ UNCHANGED <<limiter, carrier, kafka, obs, svc, ops>>

InitLoop ==
    /\ LimiterIdle
    /\ carrier = CarrierIdle
    /\ kafka = KafkaIdle
    /\ obs = ObsIdle
    /\ svc = SvcIdle
    /\ ops = <<>>
    /\ loop = IdleLoop

NextLoop ==
    \/ Cancel
    \/ Select
    \/ ReadMessage
    \/ ReadError
    \/ HandlerStart
    \/ \E m \in 1..NumMsgs, result \in {"ok", "error"} : HandlerReturn(m, result)
    \/ \E kind \in SimKinds, delay \in SleepTicks : SimStart(kind, delay)
    \/ SimTick
    \/ SimReturn

SpecLoop == InitLoop /\ [][NextLoop]_vars

\* C26: once the context is done a blocking operation returns promptly,
\* with an error, and does no further work: a simulated call sleeps at most
\* one more tick and does not return nil, and StartConsuming invokes no
\* handler.
C26_CancelledReturnsPromptly ==
    /\ loop.sim.overrun <= 1
    /\ (loop.sim.pc = "returned" /\ loop.sim.doneAtReturn) => loop.sim.err
    /\ \A m \in 1..Len(loop.msgs) : ~loop.msgs[m].lateStart

\* C27: at most one handler of the loop is in progress, and the
\* kafka.consume span of a message has ended when the next message is read.
C27_OneMessageAtATime ==
    /\ Cardinality(loop.running) <= 1
    /\ \A m \in 1..Len(loop.msgs) :
          m < loop.offset =>
              /\ Ends(loop.msgs[m].span) = 1
              /\ m \notin loop.running

\* The second message has been read and its handler is running.
C27_Witness ==
    /\ loop.offset = 2
    /\ loop.running = {2}
    /\ Ends(loop.msgs[1].span) = 1

\* C30: when the handler returns an error for a message, the error is
\* recorded on the message's span, the span is ended, the handler is not
\* invoked again for the message, and the loop goes on; StartConsuming
\* returns only when the context is done or reading fails.
C30_HandlerErrorDoesNotStop ==
    /\ \A m \in 1..Len(loop.msgs) :
          loop.msgs[m].result = "error" =>
              /\ loop.msgs[m].span.events = <<"start", "error", "end">>
              /\ loop.msgs[m].runs = 1
    /\ loop.pc = "returned" => loop.err \in {"ctx", "read"}
    /\ (loop.err = "ctx" => loop.ctxDone)

\* The handler failed for the first message, and the second message has
\* been read and handled.
C30_Witness ==
    /\ Len(loop.msgs) >= 2
    /\ loop.msgs[1].result = "error"
    /\ loop.msgs[2].result = "ok"

\* ---------------------------------------------------------------------
\* The counters of different keys, and their expiry (Spec, SpecRL)
\* ---------------------------------------------------------------------

\* C28: the counters of different keys are independent: a step of a
\* CheckRateLimit call on a key (its INCR, its EXPIRE, its failure) leaves
\* the counter and the expiry of every other key as they were, and the
\* reply its INCR gets is one more than the counter of its own key.
C28_KeysIndependent ==
    [][\A p \in Procs :
        (pc[p] \in {"incr", "expire"} /\ pc'[p] # pc[p]) =>
            /\ \A k \in Keys \ {call[p].key} : store'[k] = store[k]
            /\ (pc'[p] = "expire" /\ ~call'[p].err) =>
                   call'[p].val = store[call[p].key].count + 1]_vars

\* With a limit of 1, two requests from different addresses have both been
\* admitted, each the first of its key.
C28_Witness ==
    /\ cfg = 1
    /\ \A k \in Keys : store[k].count = 1
    /\ \A r \in Procs : req[r].checked /\ req[r].allowed /\ ~req[r].rlErr

\* No caller is inside CheckRateLimit.
Quiescent == \A p \in Procs : pc[p] = "returned"

\* C29: no counter exists without an expiry: when every CheckRateLimit call
\* has returned, also with an error, each key that holds a counter has a
\* time to live, of at most the window.
C29_NoCounterWithoutExpiry ==
    Quiescent =>
        \A k \in Keys :
            Exists(store, k) =>
                store[k].ttl # NoTTL /\ store[k].ttl <= Window

====
